---- MODULE Spec2Model ----
(***************************************************************************)
(* A model of perfprof (src/perfprof.py): one call of the function, from   *)
(* the capture of the text.usetex flag to its restoration, with the        *)
(* plotting backend reduced to what it is handed (figure created, curves   *)
(* plotted, axes decorated).                                               *)
(*                                                                         *)
(* Numbers are IEEE doubles in the code.  They are modelled as exact       *)
(* extended rationals <<num, den>> in lowest terms with den >= 0:          *)
(*   <<n, d>>, d > 0   the rational n/d                                    *)
(*   <<1, 0>>          +inf  (x/0 for x > 0)                               *)
(*   <<-1, 0>>         -inf                                                *)
(*   <<0, 0>>          NaN   (0/0, a missing measurement)                  *)
(* Every comparison with NaN is false, as in IEEE arithmetic.              *)
(***************************************************************************)
EXTENDS Integers, Sequences, FiniteSets, TLC

\* ------------------------------------------------------------------------
\* Bounds of the model
\* ------------------------------------------------------------------------
\* measurements are NaN or an integer in 0..MaxVal
MaxVal == 2
\* a matrix has 1..MaxRows rows (test cases), 1..MaxCols columns
\* (alternatives) and at most MaxCells entries
MaxRows == 3

MaxCols == 2

MaxCells == 6

\* ------------------------------------------------------------------------
\* Extended rational arithmetic (numpy double arithmetic, exact)
\* ------------------------------------------------------------------------
\* Python's None, where a number or a list is expected
None == <<>>

\* Python's None, where a flag or a string is expected
NoValue == "None"

NaN == <<0, 0>>
Zero == <<0, 1>>
One == <<1, 1>>

Abs(i) == IF i < 0 THEN -i ELSE i

Sign(i) == IF i < 0 THEN -1 ELSE IF i > 0 THEN 1 ELSE 0

RECURSIVE GCD(_, _)
GCD(a, b) == IF b = 0 THEN a ELSE GCD(b, a % b)

\* the value n/d in canonical form
Norm(n, d) ==
  IF d = 0 THEN <<Sign(n), 0>>
  ELSE LET g == GCD(Abs(n), Abs(d))
       IN  <<(Sign(d) * n) \div g, Abs(d) \div g>>

IsNaN(a) == a = NaN

RNeg(a) == <<-a[1], a[2]>>

RAdd(a, b) ==
  IF a[2] = 0 /\ b[2] = 0
  THEN (IF a = b THEN a ELSE NaN)
  ELSE Norm(a[1] * b[2] + b[1] * a[2], a[2] * b[2])

RSub(a, b) == RAdd(a, RNeg(b))

RMul(a, b) == Norm(a[1] * b[1], a[2] * b[2])

RDiv(a, b) == Norm(a[1] * b[2], a[2] * b[1])

RLe(a, b) ==
  /\ ~IsNaN(a)
  /\ ~IsNaN(b)
  /\ IF a[2] = 0 /\ b[2] = 0 THEN a[1] <= b[1]
     ELSE a[1] * b[2] <= b[1] * a[2]

RLt(a, b) ==
  /\ ~IsNaN(a)
  /\ ~IsNaN(b)
  /\ IF a[2] = 0 /\ b[2] = 0 THEN a[1] < b[1]
     ELSE a[1] * b[2] < b[1] * a[2]

RGe(a, b) == RLe(b, a)

\* np.array(cond, dtype=np.int): 1 where the condition holds, else 0
Ind(c) == IF c THEN One ELSE Zero

Last(s) == s[Len(s)]

\* ------------------------------------------------------------------------
\* The computation of perfprof, operator by operator
\* ------------------------------------------------------------------------
\* A matrix is a sequence of m rows, each a sequence of n values.

\* np.min over a row: NaN as soon as one entry is NaN
NpMin(row) ==
  IF \E j \in 1..Len(row) : IsNaN(row[j]) THEN NaN
  ELSE LET j == CHOOSE j \in 1..Len(row) :
                  \A l \in 1..Len(row) : RLe(row[j], row[l])
       IN  row[j]

\* np.max over a row or a vector: NaN as soon as one entry is NaN
NpMax(row) ==
  IF \E j \in 1..Len(row) : IsNaN(row[j]) THEN NaN
  ELSE LET j == CHOOSE j \in 1..Len(row) :
                  \A l \in 1..Len(row) : RLe(row[l], row[j])
       IN  row[j]

\* one entry of the ppfix remapping (lines 125-127)
PpFixVal(v, ppfixmin, ppfixmax) ==
  RAdd(RMul(Ind(RGe(v, ppfixmax)), v),
       RMul(Ind(RLt(v, ppfixmax)),
            RAdd(ppfixmin, RDiv(RMul(v, RSub(ppfixmax, ppfixmin)), ppfixmax))))

PpFix(d, ppfixmin, ppfixmax) ==
  [i \in 1..Len(d) |->
     [j \in 1..Len(d[i]) |-> PpFixVal(d[i][j], ppfixmin, ppfixmax)]]

\* minvals = np.min(data, axis=1)
MinVals(d) == [i \in 1..Len(d) |-> NpMin(d[i])]

\* thmax = np.max(np.max(data, axis=1) / minvals)
DefaultThmax(d, mv) == NpMax([i \in 1..Len(d) |-> RDiv(NpMax(d[i]), mv[i])])

\* RatioCol without the normalisation: the raw column (C8 tells them apart)
RawCol(d, mv, a) == [i \in 1..Len(d) |-> d[i][a + 1]]

\* data[:, alt] / minvals, alt counted from 0
RatioCol(d, mv, a) == [i \in 1..Len(d) |-> RDiv(d[i][a + 1], mv[i])]

\* col[~np.isnan(col)]
DropNaN(c) == SelectSeq(c, LAMBDA v : ~IsNaN(v))

\* np.unique: the distinct values in increasing order
RECURSIVE SortSet(_)
SortSet(S) ==
  IF S = {} THEN <<>>
  ELSE LET lo == CHOOSE v \in S : \A w \in S : RLe(v, w)
       IN  <<lo>> \o SortSet(S \ {lo})

Unique(c) == SortSet({c[i] : i \in 1..Len(c)})

\* Prob over the non-missing entries only: divides by len(col), not by m
\* (C5 tells them apart)
ProbOverPresent(c, th, rows) ==
  [j \in 1..Len(th) |->
     RDiv(<<Cardinality({i \in 1..Len(c) : RLe(c[i], th[j])}), 1>>,
          <<Len(c), 1>>)]

\* Prob with a strict comparison: counts the ratios below theta[j]
\* (C6 tells them apart)
ProbStrict(c, th, rows) ==
  [j \in 1..Len(th) |->
     RDiv(<<Cardinality({i \in 1..Len(c) : RLt(c[i], th[j])}), 1>>, <<rows, 1>>)]

\* prob = np.sum(col[i] <= theta[j], axis=0) / m
Prob(c, th, rows) ==
  [j \in 1..Len(th) |->
     RDiv(<<Cardinality({i \in 1..Len(c) : RLe(c[i], th[j])}), 1>>, <<rows, 1>>)]

\* k = floor(arange(0, r, 0.5)) = 0,0,1,1,...,r-1,r-1 (indices from 0)
K(r) == [i \in 1..(2 * r) |-> (i - 1) \div 2]

\* x = theta[k[1:]]
StairX(th) ==
  LET k == K(Len(th)) IN [i \in 1..(Len(k) - 1) |-> th[k[i + 1] + 1]]

\* StairY sliced like StairX: prob[k[1:]] (C9 tells them apart)
StairYLikeX(pr) ==
  LET k == K(Len(pr)) IN [i \in 1..(Len(k) - 1) |-> pr[k[i + 1] + 1]]

\* y = prob[k[0:-1]]
StairY(pr) ==
  LET k == K(Len(pr)) IN [i \in 1..(Len(k) - 1) |-> pr[k[i] + 1]]

\* CheckLeft starting the curve at x = 0 instead of x = 1
\* (C1 tells them apart)
CheckLeftFromZero(c, tol) ==
  IF RGe(c.x[1], RAdd(One, tol))
  THEN [x |-> <<Zero, c.x[1]>> \o c.x, y |-> <<Zero, Zero>> \o c.y]
  ELSE c

\* lines 165-167: the left endpoint
CheckLeft(c, tol) ==
  IF RGe(c.x[1], RAdd(One, tol))
  THEN [x |-> <<One, c.x[1]>> \o c.x, y |-> <<Zero, Zero>> \o c.y]
  ELSE c

\* CheckRight with <= in place of < (C10 tells them apart)
CheckRightInclusive(c, thm, tol) ==
  IF RLe(Last(c.x), RSub(thm, tol))
  THEN [x |-> Append(c.x, thm), y |-> Append(c.y, Last(c.y))]
  ELSE c

\* lines 168-170: the right endpoint
CheckRight(c, thm, tol) ==
  IF RLt(Last(c.x), RSub(thm, tol))
  THEN [x |-> Append(c.x, thm), y |-> Append(c.y, Last(c.y))]
  ELSE c

\* lines 146-170 for one alternative: its final curve
CurveOf(d, mv, thm, tol, a) ==
  LET c == DropNaN(RatioCol(d, mv, a))
      th == Unique(c)
      pr == Prob(c, th, Len(d))
  IN  CheckRight(CheckLeft([x |-> StairX(th), y |-> StairY(pr)], tol), thm, tol)

\* lines 145-179: the curves of the alternatives a, a+1, ..., n-1 that have
\* a non-missing ratio, in order
RECURSIVE CurvesFrom(_, _, _, _, _)
CurvesFrom(d, mv, thm, tol, a) ==
  IF a >= Len(d[1]) THEN <<>>
  ELSE (IF Len(DropNaN(RatioCol(d, mv, a))) = 0 THEN <<>>
        ELSE <<CurveOf(d, mv, thm, tol, a)>>)
       \o CurvesFrom(d, mv, thm, tol, a + 1)

\* lines 122-179 as a function of the arguments: the curves of a call
CurvesOf(a) ==
  LET d == IF a.ppfix THEN PpFix(a.data, a.ppfixmin, a.ppfixmax) ELSE a.data
      mv == MinVals(d)
      thm == IF a.thmax = None THEN DefaultThmax(d, mv) ELSE a.thmax
  IN  CurvesFrom(d, mv, thm, a.tol, 0)

\* ------------------------------------------------------------------------
\* The call: state
\* ------------------------------------------------------------------------
VARIABLES
  args,        \* the arguments of the call (never assigned)
  rcUsetex,    \* plt.rcParams['text.usetex'], process-wide
  usetexorig,  \* line 115
  data,        \* lines 122-127
  minvals,     \* line 129
  thmax,       \* lines 130-131
  m,           \* line 132
  n,           \* line 132
  alt,         \* the loop variable of line 145
  col,         \* lines 146-147
  theta,       \* line 152
  prob,        \* line 157
  x,           \* lines 161-169
  y,           \* lines 162-170
  figure,      \* TRUE once plt.figure() has been called
  plotted,     \* the curves handed to plt.plot, in order
  xlim,        \* the x-limits handed to plt.xlim
  pc,          \* the position in the function
  exc          \* the error the call ended with

vars == <<args, rcUsetex, usetexorig, data, minvals, thmax, m, n, alt, col,
          theta, prob, x, y, figure, plotted, xlim, pc, exc>>

locals == <<col, theta, prob, x, y>>

\* ------------------------------------------------------------------------
\* The arguments a call is given
\* ------------------------------------------------------------------------
\* the number of columns (alternatives) of a matrix
NCols(d) == Len(d[1])

Vals == {NaN} \cup {<<v, 1>> : v \in 0..MaxVal}

Shapes ==
  {s \in (1..MaxRows) \X (1..MaxCols) : s[1] * s[2] <= MaxCells}

Matrices == UNION {[1..s[1] -> [1..s[2] -> Vals]] : s \in Shapes}

\* the matrices of a single test case
OneRowMatrices == {d \in Matrices : Len(d) = 1}

\* a list of l line specifications / legend labels
LineSpecs(l) == [i \in 1..l |-> "k-"]

Names(l) == [i \in 1..l |-> "alg"]

\* caller-supplied thmax, or None for the computed one
Thmaxs == {None, <<3, 2>>}

\* the default tol (1e-8 in the code, smaller than every gap between the
\* ratios of the model) and no tolerance at all
DefaultTol == <<1, 100>>

Tols == {Zero, DefaultTol}

\* the ppfix thresholds in the unit of the measurements
PpFixMin == <<1, 1>>

PpFixMax == <<2, 1>>

\* Calls that vary the measurements and the numeric options; the lists have
\* the right lengths and the LaTeX flag is left alone.
CurveArgs ==
  {a \in [data : Matrices,
          linespecs : {LineSpecs(l) : l \in 1..MaxCols},
          legendnames : {None},
          thmax : Thmaxs,
          tol : Tols,
          ppfix : BOOLEAN,
          ppfixmin : {PpFixMin},
          ppfixmax : {PpFixMax},
          usetex : {NoValue}] :
     Len(a.linespecs) = NCols(a.data)}

\* Calls that vary the lists and the LaTeX flag, on one test case with the
\* default tol, no ppfix, and thmax computed or given as 1.
CallArgs ==
  [data : OneRowMatrices,
   linespecs : {LineSpecs(l) : l \in 1..MaxCols},
   legendnames : {None} \cup {Names(l) : l \in 1..MaxCols},
   thmax : {None, One},
   tol : {DefaultTol},
   ppfix : {FALSE},
   ppfixmin : {PpFixMin},
   ppfixmax : {PpFixMax},
   usetex : {NoValue, "True", "False"}]

Init ==
  /\ \/ args \in CurveArgs /\ rcUsetex = "False"
     \/ args \in CallArgs /\ rcUsetex \in {"True", "False"}
  /\ usetexorig = NoValue
  /\ data = None
  /\ minvals = None
  /\ thmax = None
  /\ m = 0
  /\ n = 0
  /\ alt = 0
  /\ col = <<>>
  /\ theta = <<>>
  /\ prob = <<>>
  /\ x = <<>>
  /\ y = <<>>
  /\ figure = FALSE
  /\ plotted = <<>>
  /\ xlim = None
  /\ pc = "start"
  /\ exc = NoValue

\* ------------------------------------------------------------------------
\* The call: steps
\* ------------------------------------------------------------------------
\* lines 115-120: remember the flag and set the requested one
SetUsetex ==
  /\ pc = "start"
  /\ usetexorig' = rcUsetex
  /\ rcUsetex' = IF args.usetex # NoValue THEN args.usetex ELSE rcUsetex
  /\ pc' = "prepare"
  /\ UNCHANGED <<args, data, minvals, thmax, m, n, alt, locals, figure,
                 plotted, xlim, exc>>

\* lines 122-132: the matrix, the row minima, thmax and the shape
Prepare ==
  /\ pc = "prepare"
  /\ data' = IF args.ppfix THEN PpFix(args.data, args.ppfixmin, args.ppfixmax)
             ELSE args.data
  /\ minvals' = MinVals(data')
  /\ thmax' = IF args.thmax = None THEN DefaultThmax(data', minvals')
              ELSE args.thmax
  /\ m' = Len(data')
  /\ n' = NCols(data')
  /\ pc' = "check"
  /\ UNCHANGED <<args, rcUsetex, usetexorig, alt, locals, figure, plotted,
                 xlim, exc>>

\* lines 134-136
RaiseLinespecs ==
  /\ pc = "check"
  /\ Len(args.linespecs) # n
  /\ pc' = "raised"
  /\ exc' = "ValueError: linespecs"
  /\ UNCHANGED <<args, rcUsetex, usetexorig, data, minvals, thmax, m, n, alt,
                 locals, figure, plotted, xlim>>

\* lines 138-141
RaiseLegendnames ==
  /\ pc = "check"
  /\ Len(args.linespecs) = n
  /\ args.legendnames # None
  /\ Len(args.legendnames) # n
  /\ pc' = "raised"
  /\ exc' = "ValueError: legendnames"
  /\ UNCHANGED <<args, rcUsetex, usetexorig, data, minvals, thmax, m, n, alt,
                 locals, figure, plotted, xlim>>

\* Figure without the legendnames check (C3 tells them apart)
FigureUnchecked ==
  /\ pc = "check"
  /\ Len(args.linespecs) = n
  /\ figure' = TRUE
  /\ alt' = 0
  /\ pc' = "loop"
  /\ UNCHANGED <<args, rcUsetex, usetexorig, data, minvals, thmax, m, n,
                 locals, plotted, xlim, exc>>

\* Figure reached only with thmax > 1 (C7 tells them apart)
FigureAboveOne ==
  /\ pc = "check"
  /\ Len(args.linespecs) = n
  /\ args.legendnames # None => Len(args.legendnames) = n
  /\ RLt(One, thmax)
  /\ figure' = TRUE
  /\ alt' = 0
  /\ pc' = "loop"
  /\ UNCHANGED <<args, rcUsetex, usetexorig, data, minvals, thmax, m, n,
                 locals, plotted, xlim, exc>>

\* lines 134-145: both checks pass, plt.figure(), the loop starts
Figure ==
  /\ pc = "check"
  /\ Len(args.linespecs) = n
  /\ args.legendnames # None => Len(args.legendnames) = n
  /\ figure' = TRUE
  /\ alt' = 0
  /\ pc' = "loop"
  /\ UNCHANGED <<args, rcUsetex, usetexorig, data, minvals, thmax, m, n,
                 locals, plotted, xlim, exc>>

\* lines 145-150: an alternative all of whose ratios are NaN is skipped
SkipAlt ==
  /\ pc = "loop"
  /\ alt < n
  /\ col' = DropNaN(RatioCol(data, minvals, alt))
  /\ Len(col') = 0
  /\ alt' = alt + 1
  /\ UNCHANGED <<args, rcUsetex, usetexorig, data, minvals, thmax, m, n,
                 theta, prob, x, y, figure, plotted, xlim, pc, exc>>

\* lines 145-162: the ratios of one alternative and its staircase
Staircase ==
  /\ pc = "loop"
  /\ alt < n
  /\ col' = DropNaN(RatioCol(data, minvals, alt))
  /\ Len(col') # 0
  /\ theta' = Unique(col')
  /\ prob' = Prob(col', theta', m)
  /\ x' = StairX(theta')
  /\ y' = StairY(prob')
  /\ pc' = "endpoints"
  /\ UNCHANGED <<args, rcUsetex, usetexorig, data, minvals, thmax, m, n, alt,
                 figure, plotted, xlim, exc>>

\* x and y after lines 165-170
Endpoints == CheckRight(CheckLeft([x |-> x, y |-> y], args.tol), thmax, args.tol)

\* lines 165-179: the endpoints, then plt.plot
Plot ==
  /\ pc = "endpoints"
  /\ x' = Endpoints.x
  /\ y' = Endpoints.y
  /\ plotted' = Append(plotted,
                  [x |-> x', y |-> y', linespec |-> args.linespecs[alt + 1],
                   label |-> IF args.legendnames = None THEN NoValue
                             ELSE args.legendnames[alt + 1]])
  /\ alt' = alt + 1
  /\ pc' = "loop"
  /\ UNCHANGED <<args, rcUsetex, usetexorig, data, minvals, thmax, m, n, col,
                 theta, prob, figure, xlim, exc>>

\* lines 165-179 when the backend raises in plt.plot
PlotRaises ==
  /\ pc = "endpoints"
  /\ x' = Endpoints.x
  /\ y' = Endpoints.y
  /\ pc' = "raised"
  /\ exc' = "backend"
  /\ UNCHANGED <<args, rcUsetex, usetexorig, data, minvals, thmax, m, n, alt,
                 col, theta, prob, figure, plotted, xlim>>

\* lines 182-193: labels, legend, limits, draw
Decorate ==
  /\ pc = "loop"
  /\ alt = n
  /\ xlim' = <<One, thmax>>
  /\ pc' = "restore"
  /\ UNCHANGED <<args, rcUsetex, usetexorig, data, minvals, thmax, m, n, alt,
                 locals, figure, plotted, exc>>

\* lines 195-199: put the flag back
RestoreUsetex ==
  /\ pc = "restore"
  /\ rcUsetex' = IF args.usetex # NoValue THEN usetexorig ELSE rcUsetex
  /\ pc' = "done"
  /\ UNCHANGED <<args, usetexorig, data, minvals, thmax, m, n, alt, locals,
                 figure, plotted, xlim, exc>>

Next ==
  \/ SetUsetex
  \/ Prepare
  \/ RaiseLinespecs
  \/ RaiseLegendnames
  \/ Figure
  \/ SkipAlt
  \/ Staircase
  \/ Plot
  \/ PlotRaises
  \/ Decorate
  \/ RestoreUsetex

Spec == Init /\ [][Next]_vars

\* ------------------------------------------------------------------------
\* Vocabulary of the claims
\* ------------------------------------------------------------------------
NonDecreasing(s) == \A i \in 1..(Len(s) - 1) : RLe(s[i], s[i + 1])

IsFinite(v) == v[2] # 0

\* the ratio of row i in the current alternative, straight from the matrix
RatioAt(i) == RDiv(data[i][alt + 1], minvals[i])

Present == {i \in 1..Len(args.data) : ~IsNaN(RatioAt(i))}

Missing == {i \in 1..Len(args.data) : IsNaN(RatioAt(i))}

\* every non-missing ratio of the matrix is at most thmax
ThmaxCovers ==
  /\ thmax # None
  /\ ~IsNaN(thmax)
  /\ \A i \in 1..Len(data) : \A j \in 1..NCols(data) :
       LET ratio == RDiv(data[i][j], minvals[i])
       IN  ~IsNaN(ratio) => RLe(ratio, thmax)

\* ------------------------------------------------------------------------
\* C9  Staircase conversion.  Right after the staircase of an alternative
\* is built (before the endpoints are checked), theta holds the r distinct
\* non-missing ratios in strictly increasing order and the points are
\* (theta[0], prob[0]) followed, for k = 1..r-1, by (theta[k], prob[k-1])
\* and (theta[k], prob[k]): 2r-1 points in all.  (theta and prob are indexed
\* from 1 here, so theta[k] of the claim is theta[k + 1].)
\* ------------------------------------------------------------------------
C9_Staircase ==
  pc = "endpoints" =>
    LET r == Len(theta) IN
    /\ r >= 1
    /\ {theta[k] : k \in 1..r} = {RatioAt(i) : i \in Present}
    /\ \A k \in 1..(r - 1) : RLt(theta[k], theta[k + 1])
    /\ Len(x) = 2 * r - 1
    /\ Len(y) = 2 * r - 1
    /\ x[1] = theta[1]
    /\ y[1] = prob[1]
    /\ \A k \in 1..(r - 1) :
         /\ x[2 * k] = theta[k + 1]
         /\ y[2 * k] = prob[k]
         /\ x[2 * k + 1] = theta[k + 1]
         /\ y[2 * k + 1] = prob[k + 1]

\* a staircase of three distinct ratios
C9_Witness == pc = "endpoints" /\ Len(theta) = 3 /\ Len(x) = 5

\* ------------------------------------------------------------------------
\* C5  prob[k] is the number of non-missing ratios of the column that are
\* <= theta[k], divided by the number m of rows of the matrix; a column
\* with j >= 1 missing ratios has no prob value above (m - j)/m.
\* ------------------------------------------------------------------------
C5_ProbOverAllRows ==
  pc = "endpoints" =>
    LET rows == Len(args.data)
        j == Cardinality(Missing)
    IN  /\ Len(prob) = Len(theta)
        /\ \A k \in 1..Len(theta) :
             /\ prob[k] = Norm(Cardinality({i \in Present :
                                              RLe(RatioAt(i), theta[k])}), rows)
             /\ RLe(prob[k], Norm(rows - j, rows))

\* a column with a missing ratio and two distinct present ones
C5_Witness ==
  /\ pc = "endpoints"
  /\ Cardinality(Missing) = 1
  /\ Len(theta) = 2
  /\ prob[2] = <<2, 3>>

\* ------------------------------------------------------------------------
\* C10  Boundary extension.  The step that checks the endpoints turns the
\* staircase (x, y) into the final curve by prepending (1, 0) and
\* (theta[0], 0) exactly when x[0] >= 1 + tol, and appending
\* (thmax, y[-1]) exactly when x[-1] < thmax - tol; nothing else changes,
\* also when r = 1.  The curve handed to plt.plot is that final curve.
\* ------------------------------------------------------------------------
C10_Endpoints ==
  [][pc = "endpoints" =>
       LET left == RGe(x[1], RAdd(One, args.tol))
           right == RLt(Last(x), RSub(thmax, args.tol))
       IN  /\ x' = (IF left THEN <<One, theta[1]>> ELSE <<>>) \o x
                     \o (IF right THEN <<thmax>> ELSE <<>>)
           /\ y' = (IF left THEN <<Zero, Zero>> ELSE <<>>) \o y
                     \o (IF right THEN <<Last(y)>> ELSE <<>>)
           /\ pc' = "loop" =>
                /\ Len(plotted') = Len(plotted) + 1
                /\ Last(plotted').x = x'
                /\ Last(plotted').y = y']_vars

\* a single distinct ratio (r = 1) extended on both sides
C10_Witness ==
  /\ pc = "loop"
  /\ Len(plotted) >= 1
  /\ Len(theta) = 1
  /\ Len(Last(plotted).x) = 4
  /\ Last(plotted).x[1] = One
  /\ Last(plotted).x[4] = thmax

\* ------------------------------------------------------------------------
\* C1  As claimed: every curve handed to the backend has x non-decreasing
\* within [1, thmax] and y non-decreasing within [0, 1], whatever thmax
\* and tol the caller gave.
\* ------------------------------------------------------------------------
C1_Original ==
  \A k \in 1..Len(plotted) :
    LET c == plotted[k] IN
    /\ NonDecreasing(c.x)
    /\ NonDecreasing(c.y)
    /\ \A i \in 1..Len(c.x) : RLe(One, c.x[i]) /\ RLe(c.x[i], thmax)
    /\ \A i \in 1..Len(c.y) : RLe(Zero, c.y[i]) /\ RLe(c.y[i], One)

\* ------------------------------------------------------------------------
\* C1 (amended)  Every curve handed to the backend has x non-decreasing
\* with every x >= 1 and y non-decreasing within [0, 1]; every x is also
\* <= thmax when the resolved thmax is a number that is at least every
\* non-missing ratio of the matrix, which the computed thmax is whenever
\* it is not NaN.  (tol >= 0.  Stated where the loop is re-entered, i.e.
\* after every plt.plot, and for thmax where it has just been resolved.)
\* ------------------------------------------------------------------------
C1_Amended ==
  /\ pc = "loop" =>
       \A k \in 1..Len(plotted) :
         LET c == plotted[k] IN
         /\ NonDecreasing(c.x)
         /\ NonDecreasing(c.y)
         /\ \A i \in 1..Len(c.x) : RLe(One, c.x[i])
         /\ \A i \in 1..Len(c.y) : RLe(Zero, c.y[i]) /\ RLe(c.y[i], One)
         /\ \/ \A i \in 1..Len(c.x) : RLe(c.x[i], thmax)
            \/ ~ThmaxCovers
  /\ (pc = "check" /\ args.thmax = None /\ ~IsNaN(thmax)) => ThmaxCovers

\* a curve that runs from x = 1 to a covering thmax, extended on the right
C1_Witness ==
  /\ pc = "done"
  /\ ThmaxCovers
  /\ \E k \in 1..Len(plotted) :
       /\ Len(plotted[k].x) >= 4
       /\ plotted[k].x[1] = One
       /\ Last(plotted[k].x) = thmax
       /\ RLt(plotted[k].x[Len(plotted[k].x) - 1], thmax)

\* ------------------------------------------------------------------------
\* C6  As claimed: if every entry of the matrix is finite, the last y of
\* every curve is 1.
\* ------------------------------------------------------------------------
AllFinite(d) ==
  \A i \in 1..Len(d) : \A j \in 1..NCols(d) : IsFinite(d[i][j])

AllPositive(d) ==
  \A i \in 1..Len(d) : \A j \in 1..NCols(d) :
    IsFinite(d[i][j]) /\ RLt(Zero, d[i][j])

C6_Original ==
  AllFinite(args.data) =>
    \A k \in 1..Len(plotted) : Last(plotted[k].y) = One

\* ------------------------------------------------------------------------
\* C6 (amended)  If every entry of the matrix, after the optional ppfix
\* remapping, is finite and strictly positive, then every alternative gets
\* a curve and the last y of every curve is 1.
\* ------------------------------------------------------------------------
C6_Amended ==
  (pc \notin {"start", "prepare"} /\ AllPositive(data)) =>
    /\ \A k \in 1..Len(plotted) : Last(plotted[k].y) = One
    /\ pc \in {"restore", "done"} => Len(plotted) = NCols(args.data)

\* two curves over positive data, one of them extended to the right
C6_Witness ==
  /\ pc = "done"
  /\ AllPositive(data)
  /\ Len(plotted) = 2
  /\ \E k \in 1..2 : /\ Last(plotted[k].x) = thmax
                     /\ RLt(plotted[k].x[Len(plotted[k].x) - 1], thmax)

\* ------------------------------------------------------------------------
\* C8  As claimed: for every positive scalar c and every configuration,
\* ppfix included, the call on c * data plots the same curves as the call
\* on data.
\* ------------------------------------------------------------------------
\* the scalars tried: powers of two, by which doubles scale exactly
Scales == {<<2, 1>>, <<1, 2>>}

ScaleData(c, d) ==
  [i \in 1..Len(d) |-> [j \in 1..Len(d[i]) |-> RMul(c, d[i][j])]]

\* the points of the curves handed to plt.plot
PlottedCurves ==
  [k \in 1..Len(plotted) |-> [x |-> plotted[k].x, y |-> plotted[k].y]]

\* the arguments of the call with the matrix scaled by c
ScaledArgs(c) == [args EXCEPT !.data = ScaleData(c, args.data)]

SameCurvesWhenScaled ==
  \A c \in Scales : \A a \in {ScaledArgs(c)} : CurvesOf(a) = PlottedCurves

C8_Original == pc = "done" => SameCurvesWhenScaled

\* ------------------------------------------------------------------------
\* C8 (amended)  With ppfix disabled, the call on c * data plots the same
\* curves as the call on data (c a power of two, so that the scaling is
\* exact in floating point).
\* ------------------------------------------------------------------------
C8_Amended == (pc = "done" /\ ~args.ppfix) => SameCurvesWhenScaled

\* a finished call without ppfix whose curves have a ratio other than 1
C8_Witness ==
  /\ pc = "done"
  /\ ~args.ppfix
  /\ Len(plotted) = 2
  /\ \E k \in 1..2 : \E i \in 1..Len(plotted[k].x) :
       plotted[k].x[i] = <<2, 1>>

\* ------------------------------------------------------------------------
\* C7  As claimed: a resolved thmax that is not greater than 1 makes the
\* call fail instead of producing curves.
\* ------------------------------------------------------------------------
ThmaxAtMostOne == thmax # None /\ RLe(thmax, One)

C7_Original == ThmaxAtMostOne => (plotted = <<>> /\ pc # "done")

\* ------------------------------------------------------------------------
\* C7 (amended)  A resolved thmax <= 1 is not rejected: the only errors
\* perfprof itself raises are the two length checks, so with lists of the
\* right lengths the call goes on to plt.figure(), plots one curve for
\* every alternative that has a non-missing ratio and sets the x-limits to
\* [1, thmax]; e.g. a matrix whose rows are constant and positive, with no
\* thmax override and tol > 0, gives every alternative the one-point curve
\* (1, 1).
\* ------------------------------------------------------------------------
LengthsMatch ==
  /\ Len(args.linespecs) = NCols(args.data)
  /\ args.legendnames # None => Len(args.legendnames) = NCols(args.data)

\* the alternatives that have a non-missing ratio
WithRatio ==
  {j \in 1..NCols(data) :
     \E i \in 1..Len(data) : ~IsNaN(RDiv(data[i][j], minvals[i]))}

C7_Amended ==
  ThmaxAtMostOne =>
    /\ (pc = "check" /\ LengthsMatch) => ENABLED Figure
    /\ pc = "raised" => (exc = "backend" \/ ~LengthsMatch)
    /\ pc \in {"restore", "done"} =>
         /\ xlim = <<One, thmax>>
         /\ Len(plotted) = Cardinality(WithRatio)
         /\ (args.thmax = None /\ AllPositive(data) /\ RLt(Zero, args.tol)) =>
              \A k \in 1..Len(plotted) :
                plotted[k].x = <<One>> /\ plotted[k].y = <<One>>

\* a finished call on a matrix with constant rows: thmax computed as 1
C7_Witness ==
  /\ pc = "done"
  /\ args.thmax = None
  /\ thmax = One
  /\ AllPositive(data)
  /\ Len(data) = 2
  /\ Len(plotted) = 2

\* ------------------------------------------------------------------------
\* C2  With a usetex given, the text.usetex flag has its pre-call value
\* again once the call has ended, whether it returned or raised.
\* ------------------------------------------------------------------------
C2_Restored ==
  (args.usetex # NoValue /\ pc \in {"done", "raised"}) => rcUsetex = usetexorig

\* ------------------------------------------------------------------------
\* C3  If the number of line specs differs from the number n of columns,
\* or legendnames is given with a length other than n, the call can only
\* end by raising the length error, and nothing has been rendered by then:
\* no figure, no curve, no axis limits.
\* ------------------------------------------------------------------------
C3_FailFast ==
  ~LengthsMatch =>
    /\ pc \in {"start", "prepare", "check", "raised"}
    /\ ~figure
    /\ plotted = <<>>
    /\ xlim = None
    /\ pc = "check" => ENABLED (RaiseLinespecs \/ RaiseLegendnames)
    /\ pc = "raised" =>
         exc = IF Len(args.linespecs) # NCols(args.data)
               THEN "ValueError: linespecs" ELSE "ValueError: legendnames"

\* the legend length error, raised after the line specs passed
C3_Witness ==
  /\ pc = "raised"
  /\ exc = "ValueError: legendnames"
  /\ Len(args.linespecs) = NCols(args.data)

\* ------------------------------------------------------------------------
\* C4  For every row with at least one finite entry, minvals[i] is the
\* minimum over the finite entries of the row, so that a missing entry in
\* one column does not make the ratios of the other columns missing.
\* ------------------------------------------------------------------------
C4_MinOverFinite ==
  pc \notin {"start", "prepare"} =>
    \A i \in 1..Len(data) :
      LET fin == {j \in 1..NCols(data) : IsFinite(data[i][j])} IN
      fin # {} =>
        /\ \E j \in fin : /\ minvals[i] = data[i][j]
                          /\ \A l \in fin : RLe(data[i][j], data[i][l])
        /\ \A j \in fin :
             RLt(Zero, data[i][j]) => ~IsNaN(RDiv(data[i][j], minvals[i]))

====
